---- MODULE Spec2Model ----
(***************************************************************************)
(* PersistentMemoryHashMap (typed-object variant): a string-keyed map in   *)
(* memory whose mutations are written through to a Bolt bucket, and whose  *)
(* constructor reloads the bucket.  One instance, used sequentially, over  *)
(* one backend location; the instance may be discarded and constructed     *)
(* again over the same location.                                           *)
(***************************************************************************)
EXTENDS Integers, Sequences, FiniteSets, TLC

\* ----------------------------------------------------------------- bounds
NumKeys == 2

Keys == 1..NumKeys

\* ----------------------------------------------------------------- values
\* BaseObjectInterface values.  Nil is the nil interface; Obj(n) is an
\* instance of objtype with payload n (Obj(0) is the zero value made by
\* reflect.New); Chan implements the interface but json.Marshal rejects it
\* (a struct with a channel field).
Nil == [kind |-> "nil", n |-> 0]
Obj(n) == [kind |-> "obj", n |-> n]
Chan == [kind |-> "chan", n |-> 0]

\* values a caller passes to AddUpdateObject
Values == {Nil, Obj(1), Chan}

\* encoded records of the bucket: JSON null, the JSON of Obj(n), and a
\* record that the decoder of objtype refuses (written for another type)
NullJSON == [kind |-> "null", n |-> 0]
ObjJSON(n) == [kind |-> "json", n |-> n]
ForeignJSON == [kind |-> "foreign", n |-> 0]

\* records a bucket may hold before the first construction
StoredBytes == {NullJSON, ObjJSON(1), ForeignJSON}

EmptyMap == [x \in {} |-> Nil]

\* json.Marshal(value)
Marshal(v) ==
    CASE v.kind = "nil"   -> [err |-> FALSE, bytes |-> NullJSON]
      [] v.kind = "obj"   -> [err |-> FALSE, bytes |-> ObjJSON(v.n)]
      [] OTHER            -> [err |-> TRUE, bytes |-> NullJSON]

\* reflect.New(objtype) followed by UnmarshalBaseObjectJSON(bytes): the
\* receiver starts as the zero value, JSON null leaves it untouched, and a
\* non-empty message reports a failure.
UnmarshalBaseObjectJSON(b) ==
    CASE b.kind = "null" -> [message |-> "", obj |-> Obj(0)]
      [] b.kind = "json" -> [message |-> "", obj |-> Obj(b.n)]
      [] OTHER           -> [message |-> "cannot unmarshal", obj |-> Obj(0)]

\* ------------------------------------------------------------ Go map, Bolt
\* m[key] = value
MapStoreIfAbsent(m, key, value) ==
    [x \in (DOMAIN m) \cup {key} |-> IF x \in DOMAIN m THEN m[x] ELSE value]

MapStore(m, key, value) ==
    [x \in (DOMAIN m) \cup {key} |-> IF x = key THEN value ELSE m[x]]

\* delete(m, key)
MapDeleteNothing(m, key) == m

MapDelete(m, key) ==
    [x \in (DOMAIN m) \ {key} |-> m[x]]

\* bucket.Put(key, encoded)
BucketPutIfAbsent(b, key, encoded) ==
    [x \in (DOMAIN b) \cup {key} |-> IF x \in DOMAIN b THEN b[x] ELSE encoded]

BucketPut(b, key, encoded) ==
    [x \in (DOMAIN b) \cup {key} |-> IF x = key THEN encoded ELSE b[x]]

\* bucket.Delete(key)
BucketDeleteNothing(b, key) == b

BucketDelete(b, key) ==
    [x \in (DOMAIN b) \ {key} |-> b[x]]

\* ------------------------------------------------------------ MemoryHashMap
MemCount(l) == Cardinality(DOMAIN l)

MemGetList(l) == l

MemFindByKey(l, key) == IF key \in DOMAIN l THEN l[key] ELSE Nil

MemAddUpdateObject(l, key, value) == MapStore(l, key, value)

MemDeleteObject(l, key) == MapDelete(l, key)

CreateMemoryHashMap == EmptyMap

\* ------------------------------------------------- PersistentMemoryHashMap
\* Faults of the backend that a call can meet once the directory exists:
\* bolt.Open fails (file lock held past the timeout), the transaction that
\* creates the bucket fails, the transaction that writes the record fails.
CreateFaults == {"none", "open", "bucket"}
Faults == {"none", "open", "bucket", "write"}

KeyMin(S) == CHOOSE x \in S : \A y \in S : x <= y

\* bucket.ForEach(fn): visits the records in key order and stops at the
\* first record for which fn returns an error; fn decodes the record and
\* stores it with memory_map.AddUpdateObject.
RECURSIVE ForEachLoad(_, _, _)
ForEachLoad(b, todo, l) ==
    IF todo = {} THEN [list |-> l, failed |-> FALSE]
    ELSE LET k == KeyMin(todo)
             d == UnmarshalBaseObjectJSON(b[k])
         IN IF d.message # ""
            THEN [list |-> l, failed |-> TRUE]
            ELSE ForEachLoad(b, todo \ {k}, MemAddUpdateObject(l, k, d.obj))

\* db.View(...): the result of ForEach is dropped and the transaction
\* function returns nil, so the error of View is nil whatever fn reported.
ViewLoad(b) ==
    LET r == ForEachLoad(b, DOMAIN b, CreateMemoryHashMap)
    IN [list |-> r.list, err |-> "nil", decodeFailed |-> r.failed]

\* os.Stat(dbfolder) followed by os.IsNotExist(err), in the constructor
DirMissingNever(e) == FALSE

DirMissing(e) == ~e.dir

\* CreatePersistentMemoryHashMap(objtype, dbfolder, dbfile) over the backend
\* e = [dir, file, bexists, bucket].
CreatePersistentMemoryHashMap(e, fault) ==
    LET r0 == [list |-> CreateMemoryHashMap, avail |-> FALSE,
               file |-> e.file, bexists |-> e.bexists, bucket |-> e.bucket,
               err |-> "nil", steps |-> <<>>, decodeFailed |-> FALSE]
        v == ViewLoad(e.bucket)
    IN IF DirMissing(e)
       THEN [r0 EXCEPT !.err = "stat", !.steps = <<"stat">>]
       ELSE IF fault = "open"
       THEN [r0 EXCEPT !.err = "open", !.steps = <<"stat", "open">>]
       ELSE IF fault = "bucket"
       THEN [r0 EXCEPT !.file = TRUE, !.err = "bucket",
                       !.steps = <<"stat", "open", "bucket", "close">>]
       ELSE IF v.err # "nil"
       THEN [r0 EXCEPT !.file = TRUE, !.bexists = TRUE, !.list = v.list,
                       !.err = v.err, !.decodeFailed = v.decodeFailed,
                       !.steps = <<"stat", "open", "bucket", "view", "close">>]
       ELSE [r0 EXCEPT !.file = TRUE, !.bexists = TRUE, !.list = v.list,
                       !.avail = TRUE, !.decodeFailed = v.decodeFailed,
                       !.steps = <<"stat", "open", "bucket", "view", "close">>]

\* what a mutation leaves when it does not reach the backend
Untouched(s) ==
    [list |-> s.list, avail |-> s.avail, file |-> s.file,
     bexists |-> s.bexists, bucket |-> s.bucket, result |-> "returned",
     steps |-> <<>>, encodeFailed |-> FALSE, backendFailed |-> FALSE]

\* a variant that treats a json.Marshal error as a backend failure
OnMarshalErrorDisable(r0) ==
    [r0 EXCEPT !.file = TRUE, !.bexists = TRUE, !.encodeFailed = TRUE,
               !.avail = FALSE,
               !.steps = <<"stat", "open", "bucket", "marshal", "close">>]

\* json.Marshal failed: AddUpdateObject returns (the deferred Close runs)
\* without writing the record and without touching the latch.
OnMarshalError(r0) ==
    [r0 EXCEPT !.file = TRUE, !.bexists = TRUE, !.encodeFailed = TRUE,
               !.steps = <<"stat", "open", "bucket", "marshal", "close">>]

\* a variant that takes the key out of the map again when a backend step fails
AddUpdateBackendRollback(s, key, value, fault) ==
    IF s.dir /\ fault = "none" /\ ~Marshal(value).err
    THEN [Untouched(s) EXCEPT
             !.file = TRUE, !.bexists = TRUE,
             !.bucket = BucketPut(s.bucket, key, Marshal(value).bytes),
             !.steps = <<"stat", "open", "bucket", "marshal", "put",
                         "close", "close">>]
    ELSE [Untouched(s) EXCEPT
             !.list = MapDelete(s.list, key),
             !.avail = FALSE, !.backendFailed = TRUE,
             !.steps = <<"stat">>]

\* AddUpdateObject, the body of `if pmhm.is_persistence_available`.
\* db.Close() is deferred before the error of bolt.Open is looked at, so a
\* failed Open ends in Close on a nil *bolt.DB, which panics.
AddUpdateBackend(s, key, value, fault) ==
    LET r0 == Untouched(s)
        enc == Marshal(value)
    IN IF ~s.dir
       THEN [r0 EXCEPT !.avail = FALSE, !.backendFailed = TRUE,
                       !.steps = <<"stat">>]
       ELSE IF fault = "open"
       THEN [r0 EXCEPT !.avail = FALSE, !.backendFailed = TRUE,
                       !.result = "panic",
                       !.steps = <<"stat", "open", "closenil">>]
       ELSE IF fault = "bucket"
       THEN [r0 EXCEPT !.avail = FALSE, !.backendFailed = TRUE,
                       !.file = TRUE,
                       !.steps = <<"stat", "open", "bucket", "close">>]
       ELSE IF enc.err
       THEN OnMarshalError(r0)
       ELSE IF fault = "write"
       THEN [r0 EXCEPT !.avail = FALSE, !.backendFailed = TRUE,
                       !.file = TRUE, !.bexists = TRUE,
                       !.steps = <<"stat", "open", "bucket", "marshal", "put",
                                   "close", "close">>]
       ELSE [r0 EXCEPT !.file = TRUE, !.bexists = TRUE,
                       !.bucket = BucketPut(s.bucket, key, enc.bytes),
                       !.steps = <<"stat", "open", "bucket", "marshal", "put",
                                   "close", "close">>]

\* AddUpdateObject(key, value) on the instance and backend
\* s = [list, avail, dir, file, bexists, bucket].
AddUpdateObjectNoGuard(s, key, value, fault) ==
    AddUpdateBackend([s EXCEPT !.list = MapStore(s.list, key, value)],
                     key, value, fault)

AddUpdateObject(s, key, value, fault) ==
    LET s2 == [s EXCEPT !.list = MapStore(s.list, key, value)]
    IN IF s2.avail THEN AddUpdateBackend(s2, key, value, fault)
       ELSE Untouched(s2)

\* DeleteObject, the body of `if pmhm.is_persistence_available`; the same
\* deferred Close on the result of a failed Open.
DeleteBackend(s, key, fault) ==
    LET r0 == Untouched(s)
    IN IF ~s.dir
       THEN [r0 EXCEPT !.avail = FALSE, !.backendFailed = TRUE,
                       !.steps = <<"stat">>]
       ELSE IF fault = "open"
       THEN [r0 EXCEPT !.avail = FALSE, !.backendFailed = TRUE,
                       !.result = "panic",
                       !.steps = <<"stat", "open", "closenil">>]
       ELSE IF fault = "bucket"
       THEN [r0 EXCEPT !.avail = FALSE, !.backendFailed = TRUE,
                       !.file = TRUE,
                       !.steps = <<"stat", "open", "bucket", "close">>]
       ELSE IF fault = "write"
       THEN [r0 EXCEPT !.avail = FALSE, !.backendFailed = TRUE,
                       !.file = TRUE, !.bexists = TRUE,
                       !.steps = <<"stat", "open", "bucket", "delete", "close">>]
       ELSE [r0 EXCEPT !.file = TRUE, !.bexists = TRUE,
                       !.bucket = BucketDelete(s.bucket, key),
                       !.steps = <<"stat", "open", "bucket", "delete", "close">>]

\* DeleteObject(key)
DeleteObjectReprobe(s, key, fault) ==
    DeleteBackend([s EXCEPT !.list = MapDelete(s.list, key), !.avail = TRUE],
                  key, fault)

DeleteObject(s, key, fault) ==
    LET s2 == [s EXCEPT !.list = MapDelete(s.list, key)]
    IN IF s2.avail THEN DeleteBackend(s2, key, fault)
       ELSE Untouched(s2)

\* FindByKey(key), Count(), GetList(): delegate to the map in memory
FindByKey(l, key) == MemFindByKey(l, key)

Count(l) == Cardinality(DOMAIN l)

GetList(l) == l

\* ---------------------------------------------------------------- state
VARIABLES
    list,                       \* pmhm.memory_map.list
    is_persistence_available,   \* pmhm.is_persistence_available
    dirExists,                  \* the directory dbfolder exists
    fileExists,                 \* the Bolt file dbfolder/dbfile exists
    bucketExists,               \* the file holds the bucket "default"
    bucket,                     \* the records of the bucket "default"
    op,                         \* the call (or backend event) that made this state
    hist,                       \* what has happened to the current instance
    thr                         \* the goroutines inside a method of the instance

vars == <<list, is_persistence_available, dirExists, fileExists, bucketExists,
          bucket, op, hist, thr>>

NoOp ==
    [name |-> "none", key |-> 0, value |-> Nil, result |-> "returned",
     err |-> "nil", steps |-> <<>>, restart |-> FALSE,
     decodeFailed |-> FALSE, encodeFailed |-> FALSE, backendFailed |-> FALSE,
     found |-> Nil, count |-> 0, present |-> FALSE,
     prevStayed |-> FALSE, prevEncFailed |-> FALSE, prevDecFailed |-> FALSE]

\* the instance and the backend as the operations read them
Here ==
    [list |-> list, avail |-> is_persistence_available, dir |-> dirExists,
     file |-> fileExists, bexists |-> bucketExists, bucket |-> bucket]

Backend ==
    [dir |-> dirExists, file |-> fileExists, bexists |-> bucketExists,
     bucket |-> bucket]

\* the faults a constructor call can meet: none while the directory is missing
\* (the call ends at os.Stat)
CreateFaultsAt(dir) == IF dir THEN CreateFaults ELSE {"none"}

\* the faults a mutation can meet: none unless it reaches bolt.Open
FaultsHere ==
    IF is_persistence_available /\ dirExists THEN Faults ELSE {"none"}

EmptyBucket == [x \in {} |-> NullJSON]

\* backends a first construction can meet: no directory, a directory with
\* no file, a file without the bucket, a bucket holding any records
InitBackends ==
    {[dir |-> FALSE, file |-> FALSE, bexists |-> FALSE, bucket |-> EmptyBucket],
     [dir |-> TRUE, file |-> FALSE, bexists |-> FALSE, bucket |-> EmptyBucket],
     [dir |-> TRUE, file |-> TRUE, bexists |-> FALSE, bucket |-> EmptyBucket]}
    \cup
    {[dir |-> TRUE, file |-> TRUE, bexists |-> TRUE, bucket |-> b] :
        b \in UNION {[D -> StoredBytes] : D \in SUBSET Keys}}

\* the goroutines that call the instance at the same time
NumThreads == 2

Threads == 1..NumThreads

\* no goroutine has entered a method
NoThreads ==
    [pc |-> [t \in Threads |-> "idle"],
     kind |-> [t \in Threads |-> "none"],
     key |-> [t \in Threads |-> 0],
     mutex |-> [t \in Threads |-> 0],
     mode |-> [t \in Threads |-> "none"],
     snap |-> [t \in Threads |-> EmptyMap],
     found |-> [t \in Threads |-> Nil],
     count |-> [t \in Threads |-> 0],
     crashed |-> FALSE]

Init ==
    \E e \in InitBackends : \E f \in CreateFaultsAt(e.dir) :
        \E r \in {CreatePersistentMemoryHashMap(e, f)} :
           /\ list = r.list
           /\ is_persistence_available = r.avail
           /\ dirExists = e.dir
           /\ fileExists = r.file
           /\ bucketExists = r.bexists
           /\ bucket = r.bucket
           /\ op = [NoOp EXCEPT !.name = "Create", !.err = r.err,
                                !.steps = r.steps,
                                !.decodeFailed = r.decodeFailed]
           /\ hist = [failed |-> FALSE, bornMissing |-> ~e.dir,
                      stayed |-> r.avail, encFailed |-> FALSE,
                      decFailed |-> r.decodeFailed,
                      plain |-> r.list, atFall |-> r.bucket]
           /\ thr = NoThreads

\* the owner drops the instance and constructs a new one over the same
\* dbfolder and dbfile
Construct ==
    /\ \E f \in CreateFaultsAt(dirExists) :
        \E r \in {CreatePersistentMemoryHashMap(Backend, f)} :
           /\ list' = r.list
           /\ is_persistence_available' = r.avail
           /\ fileExists' = r.file
           /\ bucketExists' = r.bexists
           /\ bucket' = r.bucket
           /\ op' = [NoOp EXCEPT !.name = "Create", !.err = r.err,
                                 !.steps = r.steps, !.restart = TRUE,
                                 !.decodeFailed = r.decodeFailed,
                                 !.prevStayed = hist.stayed,
                                 !.prevEncFailed = hist.encFailed,
                                 !.prevDecFailed = hist.decFailed]
           /\ hist' = [failed |-> FALSE, bornMissing |-> ~dirExists,
                       stayed |-> r.avail, encFailed |-> FALSE,
                       decFailed |-> r.decodeFailed,
                       plain |-> r.list, atFall |-> r.bucket]
    /\ UNCHANGED <<dirExists, thr>>

CallAddUpdateObject ==
    /\ \E k \in Keys, v \in Values, f \in FaultsHere :
        \E r \in {AddUpdateObject(Here, k, v, f)} :
           /\ list' = r.list
           /\ is_persistence_available' = r.avail
           /\ fileExists' = r.file
           /\ bucketExists' = r.bexists
           /\ bucket' = r.bucket
           /\ op' = [NoOp EXCEPT !.name = "AddUpdateObject", !.key = k,
                                 !.value = v, !.result = r.result,
                                 !.present = (k \in DOMAIN list),
                                 !.steps = r.steps,
                                 !.encodeFailed = r.encodeFailed,
                                 !.backendFailed = r.backendFailed]
           /\ hist' = [hist EXCEPT !.failed = @ \/ r.backendFailed,
                                   !.stayed = @ /\ r.avail,
                                   !.encFailed = @ \/ r.encodeFailed,
                                   !.plain = MemAddUpdateObject(@, k, v),
                                   !.atFall = IF is_persistence_available
                                              THEN r.bucket ELSE @]
    /\ UNCHANGED <<dirExists, thr>>

CallDeleteObject ==
    /\ \E k \in Keys, f \in FaultsHere :
        \E r \in {DeleteObject(Here, k, f)} :
           /\ list' = r.list
           /\ is_persistence_available' = r.avail
           /\ fileExists' = r.file
           /\ bucketExists' = r.bexists
           /\ bucket' = r.bucket
           /\ op' = [NoOp EXCEPT !.name = "DeleteObject", !.key = k,
                                 !.present = (k \in DOMAIN list),
                                 !.result = r.result, !.steps = r.steps,
                                 !.backendFailed = r.backendFailed]
           /\ hist' = [hist EXCEPT !.failed = @ \/ r.backendFailed,
                                   !.stayed = @ /\ r.avail,
                                   !.plain = MemDeleteObject(@, k),
                                   !.atFall = IF is_persistence_available
                                              THEN r.bucket ELSE @]
    /\ UNCHANGED <<dirExists, thr>>

\* a variant of FindByKey that looks at the directory and clears the latch
CallFindByKeyProbing ==
    /\ \E k \in Keys :
        op' = [NoOp EXCEPT !.name = "FindByKey", !.key = k,
                           !.found = FindByKey(list, k)]
    /\ is_persistence_available' = (is_persistence_available /\ dirExists)
    /\ UNCHANGED <<list, dirExists, fileExists, bucketExists, bucket, hist, thr>>

CallFindByKey ==
    /\ \E k \in Keys :
        op' = [NoOp EXCEPT !.name = "FindByKey", !.key = k,
                           !.found = FindByKey(list, k)]
    /\ UNCHANGED <<list, is_persistence_available, dirExists, fileExists,
                   bucketExists, bucket, hist, thr>>

CallCount ==
    /\ op' = [NoOp EXCEPT !.name = "Count", !.count = Count(list)]
    /\ UNCHANGED <<list, is_persistence_available, dirExists, fileExists,
                   bucketExists, bucket, hist, thr>>

CallGetList ==
    /\ op' = [NoOp EXCEPT !.name = "GetList",
                          !.count = Cardinality(DOMAIN GetList(list))]
    /\ UNCHANGED <<list, is_persistence_available, dirExists, fileExists,
                   bucketExists, bucket, hist, thr>>

\* the directory goes away (unmounted, renamed) with what it holds
DirRemoved ==
    /\ dirExists
    /\ dirExists' = FALSE
    /\ op' = [NoOp EXCEPT !.name = "DirRemoved"]
    /\ UNCHANGED <<list, is_persistence_available, fileExists, bucketExists,
                   bucket, hist, thr>>

\* the directory comes back (or is made, if it never was there)
DirRestored ==
    /\ ~dirExists
    /\ dirExists' = TRUE
    /\ op' = [NoOp EXCEPT !.name = "DirRestored"]
    /\ UNCHANGED <<list, is_persistence_available, fileExists, bucketExists,
                   bucket, hist, thr>>

Next ==
    \/ Construct
    \/ CallAddUpdateObject
    \/ CallDeleteObject
    \/ CallFindByKey
    \/ CallCount
    \/ CallGetList
    \/ DirRemoved
    \/ DirRestored

Spec == Init /\ [][Next]_vars

\* ---------------------------------------------- goroutines on one instance
\* One call per goroutine, on an instance constructed without its directory
\* (is_persistence_available false): every method is then the method of
\* MemoryHashMap, step by step.

Writes == {"AddUpdateObject", "DeleteObject"}
Reads == {"FindByKey", "Count"}

\* lock.Lock() / lock.RLock() of sync.RWMutex on the mutex m: a writer waits
\* for every holder of m, a reader for a writer holding m
CanLock(t, m, mode) ==
    \A u \in Threads \ {t} :
        (thr.mutex[u] = m /\ thr.mode[u] # "none") =>
            (mode = "R" /\ thr.mode[u] = "R")

\* the value goroutine t stores
ValueOf(t) == Obj(t)

\* the goroutine is between Lock and Unlock of its method
InCritical(t) == thr.mode[t] # "none"

\* the goroutine is inside an access to the Go map mhm.list
InMap(t) == thr.pc[t] = "access"

InitConc ==
    /\ \E r \in {CreatePersistentMemoryHashMap(
                    [dir |-> FALSE, file |-> FALSE, bexists |-> FALSE,
                     bucket |-> EmptyBucket], "none")} :
           /\ list = r.list
           /\ is_persistence_available = r.avail
           /\ dirExists = FALSE
           /\ fileExists = r.file
           /\ bucketExists = r.bexists
           /\ bucket = r.bucket
           /\ op = [NoOp EXCEPT !.name = "Create", !.err = r.err,
                                !.steps = r.steps]
           /\ hist = [failed |-> FALSE, bornMissing |-> TRUE,
                      stayed |-> r.avail, encFailed |-> FALSE,
                      decFailed |-> FALSE,
                      plain |-> r.list, atFall |-> r.bucket]
    /\ thr = NoThreads

\* a goroutine enters a method: lock := &sync.RWMutex{} makes a mutex of its
\* own (named after the goroutine: no other call can hold a reference to it)
ThreadCall ==
    \E t \in Threads, kd \in Writes \cup Reads, k \in Keys :
        /\ ~thr.crashed
        /\ thr.pc[t] = "idle"
        /\ thr' = [thr EXCEPT !.pc[t] = "called", !.kind[t] = kd,
                              !.key[t] = IF kd = "Count" THEN 0 ELSE k,
                              !.mutex[t] = t]
        /\ UNCHANGED <<list, is_persistence_available, dirExists, fileExists,
                       bucketExists, bucket, op, hist>>

\* lock.Lock() in AddUpdateObject and DeleteObject, lock.RLock() in the reads
ThreadLock ==
    \E t \in Threads :
        /\ ~thr.crashed
        /\ thr.pc[t] = "called"
        /\ \E mode \in {IF thr.kind[t] \in Writes THEN "W" ELSE "R"} :
              /\ CanLock(t, thr.mutex[t], mode)
              /\ thr' = [thr EXCEPT !.pc[t] = "locked", !.mode[t] = mode]
        /\ UNCHANGED <<list, is_persistence_available, dirExists, fileExists,
                       bucketExists, bucket, op, hist>>

\* len(mhm.list): one read of the count field of the map
ThreadCount ==
    \E t \in Threads :
        /\ ~thr.crashed
        /\ thr.pc[t] = "locked"
        /\ thr.kind[t] = "Count"
        /\ thr' = [thr EXCEPT !.pc[t] = "accessed", !.count[t] = Count(list)]
        /\ UNCHANGED <<list, is_persistence_available, dirExists, fileExists,
                       bucketExists, bucket, op, hist>>

\* mhm.list[key] = value, delete(mhm.list, key), value, ok := mhm.list[key]:
\* the runtime routine of the map starts on the table as it finds it
ThreadMapBegin ==
    \E t \in Threads :
        /\ ~thr.crashed
        /\ thr.pc[t] = "locked"
        /\ thr.kind[t] # "Count"
        /\ thr' = [thr EXCEPT !.pc[t] = "access", !.snap[t] = list]
        /\ UNCHANGED <<list, is_persistence_available, dirExists, fileExists,
                       bucketExists, bucket, op, hist>>

\* the runtime routine ends.  Alone in the map it acts on the current table;
\* raced by another access it may have acted on the table it started from
\* (a data race: either outcome)
ThreadMapEnd ==
    \E t \in Threads :
        /\ ~thr.crashed
        /\ thr.pc[t] = "access"
        /\ \E base \in {list, thr.snap[t]} :
              /\ list' = CASE thr.kind[t] = "AddUpdateObject" ->
                                 MemAddUpdateObject(base, thr.key[t], ValueOf(t))
                            [] thr.kind[t] = "DeleteObject" ->
                                 MemDeleteObject(base, thr.key[t])
                            [] OTHER -> list
              /\ thr' = [thr EXCEPT
                            !.pc[t] = "accessed",
                            !.snap[t] = EmptyMap,
                            !.found[t] = IF thr.kind[t] = "FindByKey"
                                         THEN MemFindByKey(base, thr.key[t])
                                         ELSE @]
        /\ UNCHANGED <<is_persistence_available, dirExists, fileExists,
                       bucketExists, bucket, op, hist>>

\* the runtime finds a write in progress during another access of the map
\* and ends the process: "fatal error: concurrent map writes" or
\* "concurrent map read and map write"
MapFault ==
    /\ ~thr.crashed
    /\ \E t \in Threads : \E u \in Threads \ {t} :
          /\ InMap(t) /\ InMap(u)
          /\ thr.kind[t] \in Writes
    /\ thr' = [thr EXCEPT !.crashed = TRUE]
    /\ UNCHANGED <<list, is_persistence_available, dirExists, fileExists,
                   bucketExists, bucket, op, hist>>

\* the deferred lock.Unlock() / lock.RUnlock(); the method returns (in
\* PersistentMemoryHashMap at "if !pmhm.is_persistence_available")
ThreadUnlock ==
    \E t \in Threads :
        /\ ~thr.crashed
        /\ thr.pc[t] = "accessed"
        /\ ~is_persistence_available
        /\ thr' = [thr EXCEPT !.pc[t] = "done", !.mode[t] = "none"]
        /\ UNCHANGED <<list, is_persistence_available, dirExists, fileExists,
                       bucketExists, bucket, op, hist>>

NextConc ==
    \/ ThreadCall
    \/ ThreadLock
    \/ ThreadCount
    \/ ThreadMapBegin
    \/ ThreadMapEnd
    \/ MapFault
    \/ ThreadUnlock

SpecConc == InitConc /\ [][NextConc]_vars

\* --------------------------------------------------------------- claims
Mutations == {"AddUpdateObject", "DeleteObject"}
InstanceCalls == Mutations \cup {"FindByKey", "Count", "GetList"}

\* the value a fresh load makes of the record written for v
Decoded(v) == UnmarshalBaseObjectJSON(Marshal(v).bytes).obj

\* C1: whenever is_persistence_available is true (every state is between
\* calls), the bucket holds exactly the keys of the map in memory and each
\* record is the encoding of the value in memory; records are compared as
\* the values they decode to, since a loaded value is the decoding of its
\* record.
C1_WriteThroughMirror ==
    is_persistence_available =>
        /\ DOMAIN bucket = DOMAIN list
        /\ \A k \in DOMAIN list \cap DOMAIN bucket :
              /\ ~Marshal(list[k]).err
              /\ UnmarshalBaseObjectJSON(bucket[k]).message = ""
              /\ UnmarshalBaseObjectJSON(bucket[k]).obj = Decoded(list[k])

\* C2: after construction no call turns is_persistence_available from
\* false back to true.
C2_LatchOneWay ==
    [][(op'.name # "Create" /\ ~is_persistence_available)
          => ~is_persistence_available']_vars

\* a mutation made after the latch fell, with the directory present again
C2_Witness ==
    /\ ~is_persistence_available
    /\ hist.failed
    /\ op.name = "AddUpdateObject"
    /\ ~op.backendFailed
    /\ dirExists /\ fileExists

\* C3: once a mutation of the instance met a backend failure, every later
\* AddUpdateObject and DeleteObject of the instance performs no backend step
\* and leaves the backend as it was.
C3_NoBackendAfterFailure ==
    [][(hist.failed /\ op'.name \in Mutations)
          => /\ op'.steps = <<>>
             /\ bucket' = bucket
             /\ fileExists' = fileExists
             /\ bucketExists' = bucketExists]_vars

\* a delete made after a failure, with the directory present: the record of
\* the key is still in the bucket
C3_Witness ==
    /\ hist.failed
    /\ op.name = "DeleteObject"
    /\ ~op.backendFailed
    /\ dirExists
    /\ op.key \in DOMAIN bucket

\* C4: every AddUpdateObject and DeleteObject call returns normally, and a
\* backend failure it met is absorbed into is_persistence_available = false.
C4_MutationsReturnNormally ==
    op.name \in Mutations =>
        /\ op.result = "returned"
        /\ (op.backendFailed => ~is_persistence_available)

\* C5: right after AddUpdateObject(k, v), in either mode, FindByKey(k) is v,
\* Count() grew by one if k was absent and is unchanged otherwise, and every
\* other key keeps its value.
C5_AddUpdateThenFind ==
    [][op'.name = "AddUpdateObject" =>
          /\ FindByKey(list', op'.key) = op'.value
          /\ Count(list') = Count(list) + (IF op'.key \in DOMAIN list THEN 0 ELSE 1)
          /\ \A j \in Keys \ {op'.key} :
                /\ (j \in DOMAIN list') = (j \in DOMAIN list)
                /\ FindByKey(list', j) = FindByKey(list, j)]_vars

\* an update of a present key in memory-only mode, beside another record
C5_Witness ==
    /\ op.name = "AddUpdateObject"
    /\ op.present
    /\ ~is_persistence_available
    /\ Count(list) = 2

\* C6: right after DeleteObject(k), FindByKey(k) is absent; deleting a key
\* that is not in the map changes no record and no count, and no error is
\* returned.
C6_DeleteThenFind ==
    [][op'.name = "DeleteObject" =>
          /\ op'.key \notin DOMAIN list'
          /\ FindByKey(list', op'.key) = Nil
          /\ \A j \in Keys \ {op'.key} :
                /\ (j \in DOMAIN list') = (j \in DOMAIN list)
                /\ FindByKey(list', j) = FindByKey(list, j)
          /\ (op'.key \notin DOMAIN list =>
                list' = list /\ Count(list') = Count(list))
          /\ op'.err = "nil"]_vars

\* a delete of a key that was not in the map, beside another record
C6_Witness ==
    /\ op.name = "DeleteObject"
    /\ ~op.present
    /\ Count(list) = 1

\* C7 as claimed: if is_persistence_available is true when DeleteObject(k) is
\* called, then after the call returns k is in neither the bucket nor the map.
C7_DeleteReachesBackend ==
    [][(op'.name = "DeleteObject" /\ is_persistence_available
            /\ op'.result = "returned")
          => /\ op'.key \notin DOMAIN bucket'
             /\ op'.key \notin DOMAIN list']_vars

\* C7 amended: if is_persistence_available is true when DeleteObject(k) is
\* called and still true when it returns, k is in neither the bucket nor
\* the map.
C7_DeleteReachesBackendIfStillAvailable ==
    [][(op'.name = "DeleteObject" /\ is_persistence_available
            /\ is_persistence_available')
          => /\ op'.key \notin DOMAIN bucket'
             /\ op'.key \notin DOMAIN list']_vars

\* a delete of a present key that went through the whole backend sequence
C7_Witness ==
    /\ op.name = "DeleteObject"
    /\ op.present
    /\ is_persistence_available
    /\ op.steps = <<"stat", "open", "bucket", "delete", "close">>
    /\ op.key \notin DOMAIN bucket

\* the new map holds the keys of the old one, each with the decoded form of
\* the old value
RoundTrip(new, old) ==
    /\ DOMAIN new = DOMAIN old
    /\ \A k \in DOMAIN new \cap DOMAIN old : new[k] = Decoded(old[k])

C9_DecodeFailureDisablesPersistence ==
    (op.name = "Create" /\ op.decodeFailed) =>
        /\ ~is_persistence_available
        /\ op.err # "nil"

\* C10: an instance constructed over a missing directory is empty, has
\* is_persistence_available false and comes with a non-nil error; its calls
\* make no backend step and create no file, bucket or directory, and after
\* AddUpdateObject(k, v) FindByKey(k) is v.
C10_Constructed ==
    (op.name = "Create" /\ hist.bornMissing) =>
        /\ Count(list) = 0
        /\ ~is_persistence_available
        /\ op.err # "nil"
        /\ op.result = "returned"

C10_Later ==
    (hist.bornMissing /\ op'.name \in InstanceCalls) =>
        /\ op'.steps = <<>>
        /\ fileExists' = fileExists
        /\ bucketExists' = bucketExists
        /\ bucket' = bucket
        /\ dirExists' = dirExists
        /\ (op'.name = "AddUpdateObject" =>
               FindByKey(list', op'.key) = op'.value)

C10_MissingDirectory == []C10_Constructed /\ [][C10_Later]_vars

\* an update on an instance born without its directory, made after the
\* directory appeared: the value is found and there is still no file
C10_Witness ==
    /\ hist.bornMissing
    /\ op.name = "AddUpdateObject"
    /\ dirExists /\ ~fileExists
    /\ FindByKey(list, op.key) = op.value

\* C11: no two goroutines are at the same time between Lock and Unlock of two
\* methods of the instance of which one is AddUpdateObject or DeleteObject;
\* only reads overlap.
C11_WritesExclusive ==
    \A t \in Threads : \A u \in Threads \ {t} :
        (InCritical(t) /\ InCritical(u)) =>
            (thr.kind[t] \in Reads /\ thr.kind[u] \in Reads)

\* C12: when every goroutine calls AddUpdateObject once, with pairwise
\* distinct keys, on the empty instance, the process is not ended by the
\* runtime, and when all calls have returned Count is the number of
\* goroutines and every key maps to the value of its writer.
C12_NoLostUpdate ==
    (/\ \A t \in Threads : thr.kind[t] = "AddUpdateObject"
     /\ \A t \in Threads : \A u \in Threads \ {t} : thr.key[t] # thr.key[u])
    => /\ ~thr.crashed
       /\ (\A t \in Threads : thr.pc[t] = "done") =>
             /\ Count(list) = NumThreads
             /\ \A t \in Threads :
                   /\ thr.key[t] \in DOMAIN list
                   /\ list[thr.key[t]] = ValueOf(t)

\* C13: whatever backend step fails, the change in memory is kept: the map
\* equals the plain MemoryHashMap that received the same calls since the
\* load.
C13_SameAsPlainMap == list = hist.plain

\* an update whose backend step failed and whose value is in the map
C13_Witness ==
    /\ op.name = "AddUpdateObject"
    /\ op.backendFailed
    /\ op.key \in DOMAIN list
    /\ list[op.key] = op.value
    /\ op.value = Obj(1)

\* C14: an AddUpdateObject whose value cannot be encoded leaves the value in
\* the map, the bucket as it was and is_persistence_available true; later
\* mutations that meet no backend failure still reach the bucket.
C14_EncodeFailureIsLocal ==
    [][/\ (op'.name = "AddUpdateObject" /\ op'.encodeFailed) =>
             /\ FindByKey(list', op'.key) = op'.value
             /\ bucket' = bucket
             /\ is_persistence_available'
       /\ (/\ hist.encFailed /\ hist.stayed
           /\ op'.name \in Mutations
           /\ ~op'.backendFailed /\ ~op'.encodeFailed) =>
             /\ op'.steps # <<>>
             /\ (op'.name = "AddUpdateObject" =>
                    /\ op'.key \in DOMAIN bucket'
                    /\ bucket'[op'.key] = Marshal(op'.value).bytes)
             /\ (op'.name = "DeleteObject" => op'.key \notin DOMAIN bucket')]_vars

\* a record written to the bucket after an earlier encode failure
C14_Witness ==
    /\ hist.encFailed
    /\ is_persistence_available
    /\ op.name = "AddUpdateObject"
    /\ ~op.encodeFailed
    /\ op.key \in DOMAIN bucket
    /\ bucket[op.key] = ObjJSON(1)

\* C15: every call closes the handle it opened before it returns, and never
\* calls Close on the result of a failed Open.  (In op.steps a third step
\* other than "closenil" means that Open succeeded.)
C15_HandlesClosed ==
    /\ \A i \in 1..Len(op.steps) : op.steps[i] # "closenil"
    /\ Len(op.steps) >= 3 => op.steps[Len(op.steps)] = "close"

\* C16 as claimed: after an instance lost persistence in a mutation, a new
\* instance over the same backend loads only records whose key and value the
\* old map held at the end (values compared as decoded; no encode or decode
\* failure involved).
C16_OnlyMissingRecords ==
    [][(/\ op'.name = "Create" /\ op'.restart /\ hist.failed
        /\ ~hist.decFailed /\ ~hist.encFailed /\ ~op'.decodeFailed)
          => \A k \in DOMAIN list' :
                /\ k \in DOMAIN list
                /\ list'[k] = Decoded(list[k])]_vars

\* C16 amended: a new instance constructed after a period without
\* persistence loads only records the bucket held when persistence was lost
\* (at construction, for an instance that never had it).
C16_LoadsBucketAsLost ==
    [][(op'.name = "Create" /\ op'.restart /\ ~is_persistence_available)
          => \A k \in DOMAIN list' :
                /\ k \in DOMAIN hist.atFall
                /\ UnmarshalBaseObjectJSON(hist.atFall[k]).message = ""
                /\ list'[k] = UnmarshalBaseObjectJSON(hist.atFall[k]).obj]_vars

\* a construction that loaded a record after the previous instance had lost
\* persistence
C16_Witness ==
    /\ op.name = "Create" /\ op.restart
    /\ ~op.prevStayed
    /\ is_persistence_available
    /\ Count(list) >= 1

\* the mapping held by the caller of GetList: the map of the instance itself
ReturnedMapping == GetList(list)

\* C17: the mapping returned by GetList is not changed by a later
\* AddUpdateObject or DeleteObject.
C17_GetListIsSnapshot ==
    [][(op.name = "GetList" /\ op'.name \in Mutations)
          => ReturnedMapping' = ReturnedMapping]_vars

\* C18: FindByKey returns the absent result (nil) exactly for the keys that
\* are not in the map.
C18_AbsentIffNoKey ==
    \A k \in Keys : (FindByKey(list, k) = Nil) <=> (k \notin DOMAIN list)

\* C19: Count, GetList and FindByKey leave the map, the latch and the backend
\* unchanged and make no backend step.
C19_ReadsArePure ==
    [][op'.name \in {"FindByKey", "Count", "GetList"} =>
          /\ list' = list
          /\ is_persistence_available' = is_persistence_available
          /\ bucket' = bucket
          /\ fileExists' = fileExists
          /\ bucketExists' = bucketExists
          /\ dirExists' = dirExists
          /\ op'.steps = <<>>]_vars

\* a FindByKey that found a value while the latch is true and the directory
\* is gone
C19_Witness ==
    /\ op.name = "FindByKey"
    /\ op.found # Nil
    /\ is_persistence_available
    /\ ~dirExists

\* C20: the error of the constructor is nil exactly when the instance has
\* is_persistence_available true, and that only after os.Stat, bolt.Open, the
\* bucket transaction and the load of every record succeeded; the first
\* failing step ends the construction.
C20_ConstructorResultsAgree ==
    op.name = "Create" =>
        /\ (op.err = "nil") <=> is_persistence_available
        /\ is_persistence_available =>
              /\ op.steps = <<"stat", "open", "bucket", "view", "close">>
              /\ ~op.decodeFailed
        /\ ~is_persistence_available =>
              op.steps \in {<<"stat">>, <<"stat", "open">>,
                            <<"stat", "open", "bucket", "close">>,
                            <<"stat", "open", "bucket", "view", "close">>}

====
